---------------------------- MODULE Spec2Model ----------------------------
(***************************************************************************)
(* Model of the stages of the daily trading pipeline:                      *)
(*   - clean_corporate_events      (src/corporate_cleaner.py)              *)
(*   - live_trade_decision         (src/trade_engine.py)                   *)
(*   - integrate_regimes           (src/regime_engine.py)                  *)
(*   - the run of the pipeline     (src/app.py)                            *)
(*   - run_weekly_performance_check (src/performance_engine.py)            *)
(*                                                                         *)
(* A data frame is a sequence of rows (records).  Every bar carries ROW,   *)
(* the line of the master CSV it was read from; the program does not keep  *)
(* it, it is carried here only to tell bars apart in the properties.       *)
(* Returns and bands are compared in whole percent with exact integer      *)
(* arithmetic; the closes used are far from every threshold, where the     *)
(* floating point comparison of the program gives the same answer.         *)
(***************************************************************************)
EXTENDS Integers, Sequences, FiniteSets, TLC

VARIABLES
    \* clean_corporate_events: the master file, the flagged frame, the result
    master, df, cleaned, pc,
    \* live_trade_decision: its arguments, the model directory, its result
    df_feat, decision_date, entry_date, model_dir, trade, outcome, skipped,
    \* integrate_regimes: the two tables, the cutoff, the tagged frame
    regime_table, macro_map, cutoff_date, df_regime,
    \* the run of the pipeline on the master file and on the part of it known
    \* at the decision date: the snapshots handed to live_trade_decision
    snap_full, snap_known,
    \* the performance check: the dates of the master file, the entry dates
    \* a trade file is stored under, the result of the check
    master_dates, trade_files, check

cleanVars == <<master, df, cleaned, pc>>

tradeVars == <<df_feat, decision_date, entry_date, model_dir, trade, outcome, skipped>>

regimeVars == <<regime_table, macro_map, cutoff_date, df_regime>>

pipeVars == <<snap_full, snap_known>>

perfVars == <<master_dates, trade_files, check>>

laterVars == <<regimeVars, pipeVars, perfVars>>

vars == <<master, df, cleaned, pc,
          df_feat, decision_date, entry_date, model_dir, trade, outcome, skipped,
          regime_table, macro_map, cutoff_date, df_regime,
          snap_full, snap_known, master_dates, trade_files, check>>

---------------------------------------------------------------------------
(* Bounds of the model                                                     *)

\* longest series of the main symbol in the master file
MaxLen == 24

\* bars of the second symbol of the master file, when there is one
SideLen == 2

---------------------------------------------------------------------------
(* Policy constants of clean_corporate_events, in percent                  *)

ABNORMAL_RET1_PCT == 40
ABNORMAL_RET2_PCT == 60
STABLE_BAND_PCT == 10
STABLE_WINDOW == 5
BAD_TICK_SPIKE_PCT == 80
BAD_TICK_REVERT_PCT == 10
GAP_DAYS == 10
EXCLUDE_SPLIT == {"BRITANNIA"}

---------------------------------------------------------------------------
(* Helpers                                                                 *)

Abs(x) == IF x < 0 THEN -x ELSE x

Max(a, b) == IF a > b THEN a ELSE b

Min(a, b) == IF a < b THEN a ELSE b

Range(s) == {s[i] : i \in 1..Len(s)}

\* s[a..b], empty when b < a (SubSeq of the Sequences module)
Slice(s, a, b) == IF b < a THEN <<>> ELSE SubSeq(s, a, b)

\* the symbols that occur, in Python's string order
SymbolOrder ==
    <<"A", "A_POST", "A_PRE", "B", "BRITANNIA", "C", "D", "E", "F", "G", "H",
      "X", "X_POST", "X_PRE">>

SymbolRank(s) == CHOOSE i \in 1..Len(SymbolOrder) : SymbolOrder[i] = s

\* |cur / base - 1| > pct / 100
AbsPctGt(cur, base, pct) == Abs(cur - base) * 100 > pct * base

\* |cur / base - 1| < pct / 100
AbsPctLt(cur, base, pct) == Abs(cur - base) * 100 < pct * base

---------------------------------------------------------------------------
(* clean_corporate_events                                                  *)

\* df.sort_values(["SYMBOL", "DATE"]): a stable sort on the two keys
RowBefore(a, b) ==
    \/ SymbolRank(a.SYMBOL) < SymbolRank(b.SYMBOL)
    \/ a.SYMBOL = b.SYMBOL /\ a.DATE < b.DATE
    \/ a.SYMBOL = b.SYMBOL /\ a.DATE = b.DATE /\ a.ROW < b.ROW

sort_values(fr) == SortSeq(fr, RowBefore)

\* the keys of df.groupby("SYMBOL"), in the order groupby yields them
GroupKeys(fr) ==
    SortSeq(
        LET syms == {fr[i].SYMBOL : i \in 1..Len(fr)}
            pick[S \in SUBSET syms] ==
                IF S = {} THEN <<>>
                ELSE LET s == CHOOSE x \in S : TRUE
                     IN  <<s>> \o pick[S \ {s}]
        IN  pick[syms],
        LAMBDA a, b : SymbolRank(a) < SymbolRank(b))

\* one group of df.groupby("SYMBOL"), rows in frame order
Group(fr, sym) == SelectSeq(fr, LAMBDA r : r.SYMBOL = sym)

\* abnormal_jump at position k (1-based) of a symbol's series g;
\* pct_change is missing at the first bar (first two for ret_2d) and a
\* comparison with a missing value is False
abnormal_jump(g, k) ==
    \/ k > 1 /\ AbsPctGt(g[k].CLOSE_PRICE, g[k - 1].CLOSE_PRICE, ABNORMAL_RET1_PCT)
    \/ k > 2 /\ AbsPctGt(g[k].CLOSE_PRICE, g[k - 2].CLOSE_PRICE, ABNORMAL_RET2_PCT)

\* variant: the window is cut at the end of the series, however short
post_stable_CutWindow(g, k) ==
    /\ abnormal_jump(g, k)
    /\ \A j \in (k + 1)..Min(Len(g), k + STABLE_WINDOW) :
           AbsPctLt(g[j].CLOSE_PRICE, g[k + 1].CLOSE_PRICE, STABLE_BAND_PCT)

\* variant: the window ends one bar early, at the last bar that exists
post_stable_FourAhead(g, k) ==
    /\ abnormal_jump(g, k)
    /\ k + STABLE_WINDOW - 1 <= Len(g)
    /\ \A j \in (k + 1)..Min(Len(g), k + STABLE_WINDOW) :
           AbsPctLt(g[j].CLOSE_PRICE, g[k + 1].CLOSE_PRICE, STABLE_BAND_PCT)

\* post_stable: set only at abnormal bars with 5 later bars, all of them
\* within the band around the close of the bar after the jump
post_stable(g, k) ==
    /\ abnormal_jump(g, k)
    /\ k + STABLE_WINDOW <= Len(g)
    /\ \A j \in (k + 1)..(k + STABLE_WINDOW) :
           AbsPctLt(g[j].CLOSE_PRICE, g[k + 1].CLOSE_PRICE, STABLE_BAND_PCT)

\* variant: an abnormal jump counts as an event without the stability test
suspected_corp_event_Unconfirmed(g, k) == abnormal_jump(g, k)

suspected_corp_event(g, k) == abnormal_jump(g, k) /\ post_stable(g, k)

\* suspected_bad_tick: shift(-1) is missing at the last bar of the group
suspected_bad_tick(g, k) ==
    /\ k > 1
    /\ AbsPctGt(g[k].CLOSE_PRICE, g[k - 1].CLOSE_PRICE, BAD_TICK_SPIKE_PCT)
    /\ k < Len(g)
    /\ AbsPctLt(g[k + 1].CLOSE_PRICE, g[k].CLOSE_PRICE, BAD_TICK_REVERT_PCT)

\* the series of one symbol with the flag columns the segmentation reads
Flagged(g) ==
    [k \in 1..Len(g) |->
        [SYMBOL |-> g[k].SYMBOL, DATE |-> g[k].DATE,
         CLOSE_PRICE |-> g[k].CLOSE_PRICE, ROW |-> g[k].ROW,
         suspected_corp_event |-> suspected_corp_event(g, k),
         suspected_bad_tick |-> suspected_bad_tick(g, k)]]

\* variant: the flags are computed on the whole frame as one series
FlagGroups_AcrossSymbols(fr, keys) == Flagged(fr)

RECURSIVE FlagGroups(_, _)
FlagGroups(fr, keys) ==
    IF keys = <<>> THEN <<>>
    ELSE Flagged(Group(fr, Head(keys))) \o FlagGroups(fr, Tail(keys))

\* lines 15-70: the sorted frame with its flag columns
flag_bars(csv) ==
    LET fr == sort_values(csv)
    IN  FlagGroups(fr, GroupKeys(fr))

\* variant: the flags are computed again on the series without bad ticks
DropBadTicks_Reflag(g) ==
    Flagged(SelectSeq(g, LAMBDA r : ~r.suspected_bad_tick))

\* sub[~sub["suspected_bad_tick"]].reset_index(drop=True)
DropBadTicks(g) == SelectSeq(g, LAMBDA r : ~r.suspected_bad_tick)

\* sub.index[sub["suspected_corp_event"]], 1-based
Events(sub) == {k \in 1..Len(sub) : sub[k].suspected_corp_event}

\* variant: the last flagged bar is taken instead of the first
LastEvent(events) == CHOOSE k \in events : \A j \in events : j <= k

\* events[0]
FirstEvent(events) == CHOOSE k \in events : \A j \in events : k <= j

Relabel(seg, label) ==
    [k \in 1..Len(seg) |-> [seg[k] EXCEPT !.SYMBOL = label]]

\* sub.iloc[:max(0, idx - GAP_DAYS)], idx the 0-based index of bar k
PreSegment(sub, k) == Slice(sub, 1, Max(0, (k - 1) - GAP_DAYS))

\* variant: the post segment starts one bar early
PostSegment_Early(sub, k) ==
    Slice(sub, Min(Len(sub), (k - 1) + GAP_DAYS) + 1, Len(sub))

\* sub.iloc[min(len(sub), idx + GAP_DAYS + 1):]
PostSegment(sub, k) ==
    Slice(sub, Min(Len(sub), (k - 1) + GAP_DAYS + 1) + 1, Len(sub))

\* variant: an excluded symbol is appended before its bad ticks are dropped
SplitSymbol_ExcludedUnfiltered(sym, g) ==
    LET sub == DropBadTicks(g)
        events == Events(sub)
    IN  IF sym \in EXCLUDE_SPLIT THEN g
        ELSE IF events = {} THEN sub
        ELSE LET idx == FirstEvent(events)
             IN  Relabel(PreSegment(sub, idx), sym \o "_PRE")
                     \o Relabel(PostSegment(sub, idx), sym \o "_POST")

\* variant: the exclusion list is not consulted
SplitSymbol_NoExclusion(sym, g) ==
    LET sub == DropBadTicks(g)
        events == Events(sub)
    IN  IF events = {} THEN sub
        ELSE LET idx == FirstEvent(events)
             IN  Relabel(PreSegment(sub, idx), sym \o "_PRE")
                     \o Relabel(PostSegment(sub, idx), sym \o "_POST")

\* the frames one pass of the segmentation loop appends to final
SplitSymbol(sym, g) ==
    LET sub == DropBadTicks(g)
        events == Events(sub)
    IN  IF sym \in EXCLUDE_SPLIT THEN sub
        ELSE IF events = {} THEN sub
        ELSE LET idx == FirstEvent(events)
             IN  Relabel(PreSegment(sub, idx), sym \o "_PRE")
                     \o Relabel(PostSegment(sub, idx), sym \o "_POST")

\* the columns returned (the flag columns are not)
Canonical(fr) ==
    [k \in 1..Len(fr) |->
        [SYMBOL |-> fr[k].SYMBOL, DATE |-> fr[k].DATE,
         CLOSE_PRICE |-> fr[k].CLOSE_PRICE, ROW |-> fr[k].ROW]]

RECURSIVE ConcatSegments(_, _)
ConcatSegments(fr, keys) ==
    IF keys = <<>> THEN <<>>
    ELSE SplitSymbol(Head(keys), Group(fr, Head(keys)))
             \o ConcatSegments(fr, Tail(keys))

\* lines 72-117: segmentation of the flagged frame
split_segments(fr) == Canonical(ConcatSegments(fr, GroupKeys(fr)))

clean_corporate_events(csv) == split_segments(flag_bars(csv))

---------------------------------------------------------------------------
(* Master files the cleaner is run on                                      *)

CloseLevels == {100, 150, 200}

Shape(n, p1, l1, p2, l2) == [n |-> n, p1 |-> p1, l1 |-> l1, p2 |-> p2, l2 |-> l2]

\* series of n bars that start at 100 and change level once, at bar p1
OneChangeShapes ==
    {Shape(n, 0, 100, 0, 100) : n \in 1..MaxLen}
        \cup UNION {{Shape(n, p1, l1, 0, l1) : p1 \in 2..n, l1 \in CloseLevels \ {100}} :
                      n \in 1..MaxLen}

\* ... and a second time, at bar p2 > p1
TwoChangeShapes ==
    UNION {UNION {{Shape(n, p1, l1, p2, l2) :
                      p2 \in (p1 + 1)..n, l2 \in CloseLevels \ {l1}} :
                    p1 \in 2..n, l1 \in CloseLevels \ {100}} :
             n \in 1..MaxLen}

Shapes == OneChangeShapes \cup TwoChangeShapes

ShapeClose(s, k) ==
    IF s.p1 = 0 \/ k < s.p1 THEN 100
    ELSE IF s.p2 = 0 \/ k < s.p2 THEN s.l1
    ELSE s.l2

\* rows before the main symbol's: none, a second symbol named like a
\* segment label, the repeat of the main symbol's first (symbol, date), or
\* a second symbol that trades at four times the base price
Leading(sym, layout) ==
    CASE layout = "side" ->
            [k \in 1..SideLen |->
                [SYMBOL |-> "A_PRE", DATE |-> k, CLOSE_PRICE |-> 100]]
      [] layout = "dup" ->
            <<[SYMBOL |-> sym, DATE |-> 1, CLOSE_PRICE |-> 100]>>
      [] layout = "pair" ->
            [k \in 1..SideLen |->
                [SYMBOL |-> "B", DATE |-> k, CLOSE_PRICE |-> 400]]
      [] OTHER -> <<>>

\* the main symbol's bars, newest first
MainRows(sym, s) ==
    [k \in 1..s.n |->
        [SYMBOL |-> sym, DATE |-> s.n + 1 - k,
         CLOSE_PRICE |-> ShapeClose(s, s.n + 1 - k)]]

MasterFile(sym, s, layout) ==
    LET rows == Leading(sym, layout) \o MainRows(sym, s)
    IN  [k \in 1..Len(rows) |->
            [SYMBOL |-> rows[k].SYMBOL, DATE |-> rows[k].DATE,
             CLOSE_PRICE |-> rows[k].CLOSE_PRICE, ROW |-> k]]

\* the closes of the worked scenario of the stability window, with the
\* seven bars it lists and with one bar more
ScenarioCloses ==
    {<<100, 100, 145, 146, 147, 148, 149>>,
     <<100, 100, 145, 146, 147, 148, 149, 150>>}

\* a master file of symbol X with the given closes, oldest first
ClosesFile(closes) ==
    [k \in 1..Len(closes) |->
        [SYMBOL |-> "X", DATE |-> k, CLOSE_PRICE |-> closes[k], ROW |-> k]]

ScenarioFiles == {ClosesFile(c) : c \in ScenarioCloses}

MasterFiles ==
    {MasterFile(sym, s, "plain") : sym \in {"A", "BRITANNIA"}, s \in Shapes}
        \cup {MasterFile("A", s, layout) :
                s \in OneChangeShapes, layout \in {"side", "dup", "pair"}}

---------------------------------------------------------------------------
(* The cleaning run                                                        *)

\* no regime is integrated
RegimeIdle ==
    /\ regime_table = <<>>
    /\ macro_map = <<>>
    /\ cutoff_date = 0
    /\ df_regime = <<>>

\* no pipeline is run
PipeIdle ==
    /\ snap_full = <<>>
    /\ snap_known = <<>>

\* no performance check is run
PerfIdle ==
    /\ master_dates = {}
    /\ trade_files = {}
    /\ check = "idle"

LaterIdle == RegimeIdle /\ PipeIdle /\ PerfIdle

\* no selection is run
TradeIdle ==
    /\ df_feat = <<>>
    /\ decision_date = 0
    /\ entry_date = 0
    /\ model_dir = [exists |-> FALSE, files |-> <<>>]
    /\ trade = <<>>
    /\ outcome = "idle"
    /\ skipped = <<>>

Init ==
    /\ master \in MasterFiles \cup ScenarioFiles
    /\ df = <<>>
    /\ cleaned = <<>>
    /\ pc = "load"
    /\ TradeIdle
    /\ LaterIdle

\* corporate_cleaner.py lines 15-70
FlagBars ==
    /\ pc = "load"
    /\ df' = flag_bars(master)
    /\ pc' = "flagged"
    /\ UNCHANGED <<master, cleaned>>
    /\ UNCHANGED tradeVars
    /\ UNCHANGED laterVars

\* corporate_cleaner.py lines 72-117
SplitSegments ==
    /\ pc = "flagged"
    /\ cleaned' = split_segments(df)
    /\ pc' = "cleaned"
    /\ UNCHANGED <<master, df>>
    /\ UNCHANGED tradeVars
    /\ UNCHANGED laterVars

Next == FlagBars \/ SplitSegments

Spec == Init /\ [][Next]_vars

---------------------------------------------------------------------------
(* live_trade_decision                                                     *)
(*                                                                         *)
(* A feature row is [SYMBOL, DATE, x, complete]: x stands for the values   *)
(* of the FEATURES columns and complete says that none of them is missing. *)
(* A model is an opaque predict capability; the ones of the model          *)
(* directories below are told apart by what predict does with x.  Scores   *)
(* are integers, a mean is kept as its sum and its count.                  *)

TOP_K == 5

\* model.predict(tmp[FEATURES]) for one row; "broken" raises instead
Predict(model, x) ==
    CASE model = "rise" -> x
      [] model = "fall" -> 0 - x
      [] model = "coarse" -> x \div 2

Raises(model) == model = "broken"

\* df_feat[df_feat["DATE"] == decision_date].dropna(subset=FEATURES)
Snapshot(feat, date) ==
    SelectSeq(feat, LAMBDA r : r.DATE = date /\ r.complete)

\* the loop over os.listdir(MODEL_DIR): a file that is no model, or whose
\* name or content cannot be read, is passed over; the dict keeps the
\* order of the listing
LoadModels(files) == SelectSeq(files, LAMBDA f : f.model # "unloadable")

\* tmp["pred"] = model.predict(tmp[FEATURES])
WithPred(snap, model) ==
    [k \in 1..Len(snap) |->
        [SYMBOL |-> snap[k].SYMBOL, DATE |-> snap[k].DATE, x |-> snap[k].x,
         pred |-> Predict(model, snap[k].x)]]

\* variant: the sort is on pred alone
PredSymbolBefore_PredOnly(a, b) == a.pred > b.pred

\* sort_values(["pred", "SYMBOL"], ascending=[False, True]): a stable sort
\* on the two keys
PredSymbolBefore(a, b) ==
    \/ a.pred > b.pred
    \/ a.pred = b.pred /\ SymbolRank(a.SYMBOL) < SymbolRank(b.SYMBOL)

\* .head(TOP_K)
Head_K(rows) == Slice(rows, 1, Min(TOP_K, Len(rows)))

TopK(snap, model) == Head_K(SortSeq(WithPred(snap, model), PredSymbolBefore))

RECURSIVE SumPred(_)
SumPred(rows) ==
    IF rows = <<>> THEN 0 ELSE Head(rows).pred + SumPred(Tail(rows))

\* variant: a predict that raises is not caught and ends the loop empty
ScoreClusters_Uncaught(snap, models) ==
    IF \E k \in 1..Len(models) : Raises(models[k].model) THEN <<>>
    ELSE [k \in 1..Len(models) |->
             LET topk == TopK(snap, models[k].model)
             IN  [macro |-> models[k].macro, topk |-> topk,
                  sum |-> SumPred(topk), cnt |-> Len(topk)]]

\* the entries of cluster_scores / cluster_topk after the loop, in the
\* order of models.items(); a cluster whose predict raises leaves none
RECURSIVE ScoreClusters(_, _)
ScoreClusters(snap, models) ==
    IF models = <<>> THEN <<>>
    ELSE LET m == Head(models)
             topk == TopK(snap, m.model)
         IN  (IF Raises(m.model) THEN <<>>
              ELSE <<[macro |-> m.macro, topk |-> topk,
                      sum |-> SumPred(topk), cnt |-> Len(topk)]>>)
                 \o ScoreClusters(snap, Tail(models))

\* the macros the loop prints as skipped
SkippedClusters(models) ==
    LET failed == SelectSeq(models, LAMBDA m : Raises(m.model))
    IN  [k \in 1..Len(failed) |-> failed[k].macro]

\* topk["pred"].mean() of a is below that of b
MeanLess(a, b) == a.sum * b.cnt < b.sum * a.cnt

\* variant: the first cluster scored is taken
Champion_First(scores) == scores[1]

\* max(cluster_scores, key=cluster_scores.get): the first entry, in dict
\* order, that no later entry exceeds and that exceeds every earlier one
Champion(scores) ==
    LET i == CHOOSE i \in 1..Len(scores) :
                 /\ \A j \in 1..Len(scores) : ~MeanLess(scores[i], scores[j])
                 /\ \A j \in 1..(i - 1) : MeanLess(scores[j], scores[i])
    IN  scores[i]

\* variant: the weight is one over the number of rows of the sheet
TradeRows_WeightByRows(champ, entry) ==
    [k \in 1..Len(champ.topk) |->
        [SYMBOL |-> champ.topk[k].SYMBOL, DATE |-> champ.topk[k].DATE,
         x |-> champ.topk[k].x, pred |-> champ.topk[k].pred,
         weight |-> [num |-> 1, den |-> Len(champ.topk)],
         entry_date |-> entry, cluster |-> champ.macro]]

\* the champion's rows with the three columns added
TradeRows(champ, entry) ==
    [k \in 1..Len(champ.topk) |->
        [SYMBOL |-> champ.topk[k].SYMBOL, DATE |-> champ.topk[k].DATE,
         x |-> champ.topk[k].x, pred |-> champ.topk[k].pred,
         weight |-> [num |-> 1, den |-> TOP_K],
         entry_date |-> entry, cluster |-> champ.macro]]

\* the rows at positions S, highest pred first, in every order the rows of
\* equal pred can take
RECURSIVE Arrangements(_, _)
Arrangements(rows, S) ==
    IF S = {} THEN {<<>>}
    ELSE UNION {{<<rows[i]>> \o rest : rest \in Arrangements(rows, S \ {i})} :
                  i \in {i \in S : \A j \in S : rows[i].pred >= rows[j].pred}}

\* trade.sort_values("pred", ascending=False): the default sort is not a
\* stable one, rows of equal pred may come out in any order
SortedByPred(rows) == Arrangements(rows, 1..Len(rows))

---------------------------------------------------------------------------
(* Feature tables and model directories the selector is run on            *)

\* most symbols with a row at the decision date
MaxRows == 7

DECISION == 2

\* n symbols, x rising ("asc") or falling ("desc") with the symbol, the
\* table in that symbol order too; each symbol also has a row the day
\* before; the last symbol may have a missing feature at the decision date
FeatureTable(n, order, gap) ==
    LET sym(k) == SymbolOrder[IF order = "asc" THEN k ELSE n + 1 - k]
    IN  [i \in 1..(2 * n) |->
            LET k == (i + 1) \div 2
            IN  IF i % 2 = 1
                THEN [SYMBOL |-> sym(k), DATE |-> DECISION - 1, x |-> 9,
                      complete |-> TRUE]
                ELSE [SYMBOL |-> sym(k), DATE |-> DECISION, x |-> k,
                      complete |-> ~(gap /\ k = n)]]

FeatureTables ==
    {FeatureTable(n, order, gap) :
        n \in 0..MaxRows, order \in {"asc", "desc"}, gap \in BOOLEAN}

ClusterIds == {0, 1, 2}

ModelKinds == {"rise", "fall", "coarse", "broken", "unloadable"}

\* a listing of model files, by macro id rising or falling
Listing(assign, order) ==
    LET ids == {c \in ClusterIds : assign[c] # "absent"}
        before(a, b) == IF order = "asc" THEN a < b ELSE a > b
        seq[S \in SUBSET ids] ==
            IF S = {} THEN <<>>
            ELSE LET c == CHOOSE c \in S : \A d \in S : d = c \/ before(c, d)
                 IN  <<[macro |-> c, model |-> assign[c]]>> \o seq[S \ {c}]
    IN  seq[ids]

ModelDirs ==
    {[exists |-> FALSE, files |-> <<>>]}
        \cup {[exists |-> TRUE, files |-> Listing(assign, order)] :
                assign \in [ClusterIds -> ModelKinds \cup {"absent"}],
                order \in {"asc", "desc"}}

---------------------------------------------------------------------------
(* One call of live_trade_decision                                         *)

CleanIdle ==
    /\ master = <<>>
    /\ df = <<>>
    /\ cleaned = <<>>
    /\ pc = "idle"

InitTrade ==
    /\ CleanIdle
    /\ LaterIdle
    /\ df_feat \in FeatureTables
    /\ decision_date = DECISION
    /\ entry_date = DECISION + 1
    /\ model_dir \in ModelDirs
    /\ trade = <<>>
    /\ outcome = "called"
    /\ skipped = <<>>

Raise(error) ==
    /\ outcome' = error
    /\ UNCHANGED <<df_feat, decision_date, entry_date, model_dir, trade, skipped>>
    /\ UNCHANGED cleanVars
    /\ UNCHANGED laterVars

\* line 36-37
RaiseNoData ==
    /\ outcome = "called"
    /\ Snapshot(df_feat, decision_date) = <<>>
    /\ Raise("RuntimeError: no data on decision date")

\* line 45-46
RaiseNoModelDir ==
    /\ outcome = "called"
    /\ Snapshot(df_feat, decision_date) # <<>>
    /\ ~model_dir.exists
    /\ Raise("RuntimeError: model directory not found")

\* line 63-64
RaiseNoModels ==
    /\ outcome = "called"
    /\ Snapshot(df_feat, decision_date) # <<>>
    /\ model_dir.exists
    /\ LoadModels(model_dir.files) = <<>>
    /\ Raise("RuntimeError: no trained models")

\* line 90-91
RaiseNoPredictions ==
    /\ outcome = "called"
    /\ Snapshot(df_feat, decision_date) # <<>>
    /\ model_dir.exists
    /\ LET models == LoadModels(model_dir.files)
       IN  /\ models # <<>>
           /\ ScoreClusters(Snapshot(df_feat, decision_date), models) = <<>>
           /\ skipped' = SkippedClusters(models)
    /\ outcome' = "RuntimeError: no predictions for any macro group"
    /\ UNCHANGED <<df_feat, decision_date, entry_date, model_dir, trade>>
    /\ UNCHANGED cleanVars
    /\ UNCHANGED laterVars

\* line 93-105
ReturnTradeSheet ==
    /\ outcome = "called"
    /\ Snapshot(df_feat, decision_date) # <<>>
    /\ model_dir.exists
    /\ LET models == LoadModels(model_dir.files)
           scores == ScoreClusters(Snapshot(df_feat, decision_date), models)
       IN  /\ models # <<>>
           /\ scores # <<>>
           /\ skipped' = SkippedClusters(models)
           /\ trade' \in SortedByPred(TradeRows(Champion(scores), entry_date))
    /\ outcome' = "returned"
    /\ UNCHANGED <<df_feat, decision_date, entry_date, model_dir>>
    /\ UNCHANGED cleanVars
    /\ UNCHANGED laterVars

NextTrade ==
    \/ RaiseNoData
    \/ RaiseNoModelDir
    \/ RaiseNoModels
    \/ RaiseNoPredictions
    \/ ReturnTradeSheet

SpecTrade == InitTrade /\ [][NextTrade]_vars

---------------------------------------------------------------------------
(* Vocabulary of the properties of the cleaner, stated on the date-sorted  *)
(* series g of one symbol (bars 1..Len(g)) as section 4.1 words them       *)

\* |ret1[t]| > pct%, ret1 being undefined at the first bar
Ret1Above(g, t, pct) ==
    t > 1 /\ Abs(g[t].CLOSE_PRICE - g[t - 1].CLOSE_PRICE) * 100
                 > pct * g[t - 1].CLOSE_PRICE

\* |ret1[t]| < pct%
Ret1Below(g, t, pct) ==
    t > 1 /\ Abs(g[t].CLOSE_PRICE - g[t - 1].CLOSE_PRICE) * 100
                 < pct * g[t - 1].CLOSE_PRICE

\* |ret2[t]| > pct%
Ret2Above(g, t, pct) ==
    t > 2 /\ Abs(g[t].CLOSE_PRICE - g[t - 2].CLOSE_PRICE) * 100
                 > pct * g[t - 2].CLOSE_PRICE

IsAbnormalJump(g, t) == Ret1Above(g, t, 40) \/ Ret2Above(g, t, 60)

\* five later bars exist and all close within 10% of the close of bar t+1
IsPostStable(g, t) ==
    /\ t + 5 <= Len(g)
    /\ \A j \in (t + 1)..(t + 5) :
           Abs(g[j].CLOSE_PRICE - g[t + 1].CLOSE_PRICE) * 10 < g[t + 1].CLOSE_PRICE

IsCorporateEvent(g, t) == IsAbnormalJump(g, t) /\ IsPostStable(g, t)

IsBadTick(g, t) ==
    Ret1Above(g, t, 80) /\ t < Len(g) /\ Ret1Below(g, t + 1, 10)

\* the symbols of the master file and the date-sorted series of each
MasterSymbols == {master[i].SYMBOL : i \in 1..Len(master)}

Series(sym) == SelectSeq(df, LAMBDA r : r.SYMBOL = sym)

\* positions of g that are not bad ticks, ascending: the filtered series
RECURSIVE KeptFrom(_, _)
KeptFrom(g, t) ==
    IF t > Len(g) THEN <<>>
    ELSE (IF IsBadTick(g, t) THEN <<>> ELSE <<t>>) \o KeptFrom(g, t + 1)

Kept(g) == KeptFrom(g, 1)

\* positions j of the filtered series whose bar is a corporate event
KeptEvents(g) == {j \in 1..Len(Kept(g)) : IsCorporateEvent(g, Kept(g)[j])}

\* the output rows that come from the bars of sym, in output order
OutputOf(sym) == SelectSeq(cleaned, LAMBDA r : master[r.ROW].SYMBOL = sym)

\* the master lines of the output rows of sym that carry a label
RowsLabelled(sym, label) ==
    {r.ROW : r \in {x \in Range(OutputOf(sym)) : x.SYMBOL = label}}

\* bars ks (positions of g) as output rows under a label
AsOutput(g, ks, label) ==
    [j \in 1..Len(ks) |->
        [SYMBOL |-> label, DATE |-> g[ks[j]].DATE,
         CLOSE_PRICE |-> g[ks[j]].CLOSE_PRICE, ROW |-> g[ks[j]].ROW]]

Cleaned == pc = "cleaned"

---------------------------------------------------------------------------
(* Properties of clean_corporate_events                                    *)

\* C1: in every symbol, excluded ones too, a bar with |ret1| > 0.80 whose
\* next bar in the same symbol has |ret1| < 0.10 is in the cleaned output
\* under no label.
C1_BadTickNeverInOutput ==
    Cleaned =>
        \A sym \in MasterSymbols :
            LET g == Series(sym)
            IN  \A t \in 1..Len(g) :
                    (Ret1Above(g, t, 80) /\ t < Len(g) /\ Ret1Below(g, t + 1, 10))
                        => \A k \in 1..Len(cleaned) : cleaned[k].ROW # g[t].ROW

\* an excluded symbol with such a bar has been cleaned and has rows left
C1_Witness ==
    /\ Cleaned
    /\ cleaned # <<>>
    /\ \E sym \in MasterSymbols \cap EXCLUDE_SPLIT :
           \E t \in 1..Len(Series(sym)) : IsBadTick(Series(sym), t)

\* C2 as stated: whenever some bar t (index i = t - 1) of a not excluded
\* symbol is a corporate event, no row keeps the original label, SYM_PRE is
\* the bars before i-10, SYM_POST the bars from i+11 on, and the bars of
\* [i-10, i+10] are in neither.
C2_SplitAroundAnyEvent ==
    Cleaned =>
        \A sym \in MasterSymbols \ EXCLUDE_SPLIT :
            LET g == Series(sym)
            IN  \A t \in 1..Len(g) :
                    IsCorporateEvent(g, t) =>
                        /\ RowsLabelled(sym, sym) = {}
                        /\ RowsLabelled(sym, sym \o "_PRE")
                               = {g[m].ROW : m \in 1..(t - 11)}
                        /\ RowsLabelled(sym, sym \o "_POST")
                               = {g[m].ROW : m \in (t + 11)..Len(g)}
                        /\ \A m \in (t - 10)..(t + 10) :
                               (1 <= m /\ m <= Len(g)) =>
                                   \A r \in Range(OutputOf(sym)) : r.ROW # g[m].ROW

\* C2 amended: when some bar that is not dropped as a bad tick is a
\* corporate event, the symbol is split around the first such bar, at index
\* i (position j = i + 1) of the series left after the bad ticks are
\* dropped: no row keeps the original label, SYM_PRE is the bars of that
\* series before i-10, SYM_POST its bars from i+11 on, and its bars of
\* [i-10, i+10] are in neither.
C2_SplitAroundFirstKeptEvent ==
    Cleaned =>
        \A sym \in MasterSymbols \ EXCLUDE_SPLIT :
            LET g == Series(sym)
                ks == Kept(g)
                ev == KeptEvents(g)
            IN  ev # {} =>
                    LET j == CHOOSE x \in ev : \A y \in ev : x <= y
                    IN  /\ RowsLabelled(sym, sym) = {}
                        /\ RowsLabelled(sym, sym \o "_PRE")
                               = {g[ks[m]].ROW : m \in 1..(j - 11)}
                        /\ RowsLabelled(sym, sym \o "_POST")
                               = {g[ks[m]].ROW : m \in (j + 11)..Len(ks)}
                        /\ \A m \in (j - 10)..(j + 10) :
                               (1 <= m /\ m <= Len(ks)) =>
                                   \A r \in Range(OutputOf(sym)) :
                                       r.ROW # g[ks[m]].ROW

\* a split with a bad tick dropped before the event and both segments there
C2_Witness ==
    /\ Cleaned
    /\ \E sym \in MasterSymbols \ EXCLUDE_SPLIT :
           /\ KeptEvents(Series(sym)) # {}
           /\ Len(Kept(Series(sym))) < Len(Series(sym))
           /\ RowsLabelled(sym, sym \o "_PRE") # {}
           /\ RowsLabelled(sym, sym \o "_POST") # {}

\* C3: for a not excluded symbol with idx the first corporate event of the
\* bad-tick-filtered series, the output of the symbol is exactly the
\* filtered bars [0, idx-10) as SYMBOL_PRE followed by the filtered bars
\* [idx+11, end) as SYMBOL_POST; a later event splits nothing further and
\* drops no bar.
C3_ExactSegmentsAroundFirstEvent ==
    Cleaned =>
        \A sym \in MasterSymbols \ EXCLUDE_SPLIT :
            LET g == Series(sym)
                ks == Kept(g)
                ev == KeptEvents(g)
            IN  ev # {} =>
                    LET j == CHOOSE x \in ev : \A y \in ev : x <= y
                    IN  OutputOf(sym)
                            = AsOutput(g, Slice(ks, 1, j - 11), sym \o "_PRE")
                                \o AsOutput(g, Slice(ks, j + 11, Len(ks)), sym \o "_POST")

\* a split symbol with a second corporate event inside its post segment
C3_Witness ==
    /\ Cleaned
    /\ \E sym \in MasterSymbols \ EXCLUDE_SPLIT :
           LET ev == KeptEvents(Series(sym))
           IN  \E j \in ev : \E j2 \in ev :
                   /\ \A y \in ev : j <= y
                   /\ j2 >= j + 11
                   /\ RowsLabelled(sym, sym \o "_POST") # {}

\* C4: a symbol none of whose bars is abnormalJump AND postStable is never
\* split: its output is its bars that are not bad ticks, each once, in
\* order, under the original label, with no _PRE or _POST row.
C4_NoEventNeverSplit ==
    Cleaned =>
        \A sym \in MasterSymbols :
            LET g == Series(sym)
            IN  (\A t \in 1..Len(g) : ~IsCorporateEvent(g, t))
                    => OutputOf(sym) = AsOutput(g, Kept(g), sym)

\* a not excluded symbol with an abnormal jump and a bad tick but no event
C4_Witness ==
    /\ Cleaned
    /\ \E sym \in MasterSymbols \ EXCLUDE_SPLIT :
           LET g == Series(sym)
           IN  /\ \A t \in 1..Len(g) : ~IsCorporateEvent(g, t)
               /\ \E t \in 1..Len(g) : IsAbnormalJump(g, t) /\ ~IsBadTick(g, t)
               /\ \E t \in 1..Len(g) : IsBadTick(g, t)
               /\ OutputOf(sym) # <<>>

\* C5: a symbol on the exclusion list is never split, whatever is flagged
\* in it: its output is its bars that are not bad ticks under the original
\* label, no segment label and no gap removed.
C5_ExcludedNeverSplit ==
    Cleaned =>
        \A sym \in MasterSymbols \cap EXCLUDE_SPLIT :
            OutputOf(sym) = AsOutput(Series(sym), Kept(Series(sym)), sym)

\* an excluded symbol with a corporate event left after the bad ticks
C5_Witness ==
    /\ Cleaned
    /\ \E sym \in MasterSymbols \cap EXCLUDE_SPLIT :
           /\ KeptEvents(Series(sym)) # {}
           /\ Len(Kept(Series(sym))) < Len(Series(sym))

\* C6: the cleaned output has unique (symbol label, date) pairs and the
\* rows of each label are in ascending date order, for every master file.
C6_UniqueSortedPerLabel ==
    Cleaned =>
        \A i \in 1..Len(cleaned) : \A j \in 1..Len(cleaned) :
            (i < j /\ cleaned[i].SYMBOL = cleaned[j].SYMBOL)
                => cleaned[i].DATE < cleaned[j].DATE

---------------------------------------------------------------------------
(* Vocabulary of the properties of the selector, as section 4.2 words them *)

Returned == outcome = "returned"

Failed == outcome \notin {"idle", "called", "returned"}

\* the rows of the feature table at the decision date with no missing
\* required feature
SnapRows == {r \in Range(df_feat) : r.DATE = decision_date /\ r.complete}

\* the registry, and its clusters that produce predictions
Registry == {f \in Range(model_dir.files) : f.model # "unloadable"}

Usable == {f \in Registry : ~Raises(f.model)}

\* row r is ranked before row s by a model: higher score, then smaller symbol
Outranks(model, r, s) ==
    \/ Predict(model, r.x) > Predict(model, s.x)
    \/ /\ Predict(model, r.x) = Predict(model, s.x)
       /\ SymbolRank(r.SYMBOL) < SymbolRank(s.SYMBOL)

\* the first K rows of that ranking
TopRows(model) ==
    {r \in SnapRows : Cardinality({s \in SnapRows : Outranks(model, s, r)}) < TOP_K}

RECURSIVE SumScores(_, _)
SumScores(model, rows) ==
    IF rows = {} THEN 0
    ELSE LET r == CHOOSE r \in rows : TRUE
         IN  Predict(model, r.x) + SumScores(model, rows \ {r})

\* mean top-K score of model a >= that of model b
MeanAtLeast(a, b) ==
    SumScores(a, TopRows(a)) * Cardinality(TopRows(b))
        >= SumScores(b, TopRows(b)) * Cardinality(TopRows(a))

\* the clusters named on the sheet
SheetClusters == {trade[k].cluster : k \in 1..Len(trade)}

SheetSymbols == {trade[k].SYMBOL : k \in 1..Len(trade)}

---------------------------------------------------------------------------
(* Properties of live_trade_decision                                       *)

\* C7: whenever a trade sheet is returned, the champion is a cluster that
\* produced usable predictions and its mean top-K score is at least that
\* of every other cluster that did; a cluster whose predict raised is never
\* the champion.
C7_ChampionHasMaxMean ==
    Returned =>
        \E c \in Usable :
            /\ SheetClusters = {c.macro}
            /\ \A d \in Usable : MeanAtLeast(c.model, d.model)

\* a sheet returned with one cluster failing and two usable clusters of
\* different means, the better one not the first of the listing
C7_Witness ==
    /\ Returned
    /\ \E b \in Registry : Raises(b.model)
    /\ \E c \in Usable : \E d \in Usable :
           /\ SheetClusters = {c.macro}
           /\ ~MeanAtLeast(d.model, c.model)
           /\ model_dir.files[1] = d

\* C8: the top-K of the champion are the first K rows of the order (score
\* descending, symbol ascending): every selected row is ranked before every
\* row left out, so of two rows of equal score at the last place the
\* smaller symbol is the one selected.
C8_TopKByScoreThenSymbol ==
    Returned =>
        \A c \in Usable :
            SheetClusters = {c.macro} =>
                \A r \in SnapRows : \A s \in SnapRows :
                    (r.SYMBOL \in SheetSymbols /\ s.SYMBOL \notin SheetSymbols)
                        => Outranks(c.model, r, s)

\* two rows of equal champion score, one selected and one left out
C8_Witness ==
    /\ Returned
    /\ \E c \in Usable :
           /\ SheetClusters = {c.macro}
           /\ \E r \in SnapRows : \E s \in SnapRows :
                  /\ r.SYMBOL \in SheetSymbols
                  /\ s.SYMBOL \notin SheetSymbols
                  /\ Predict(c.model, r.x) = Predict(c.model, s.x)

\* C9: the sheet is exactly the champion's top-K rows, min(K, snapshot
\* size) of them, all at the decision date and complete; every row has
\* weight 1/K, the supplied entry date and the champion's id; the rows are
\* in non-increasing score order.
C9_TradeSheetAssembly ==
    Returned =>
        \E c \in Usable :
            /\ Len(trade) = Min(TOP_K, Cardinality(SnapRows))
            /\ {[SYMBOL |-> trade[k].SYMBOL, DATE |-> trade[k].DATE,
                 x |-> trade[k].x, complete |-> TRUE] : k \in 1..Len(trade)}
                   = TopRows(c.model)
            /\ \A k \in 1..Len(trade) :
                   /\ trade[k].DATE = decision_date
                   /\ trade[k].pred = Predict(c.model, trade[k].x)
                   /\ trade[k].weight.num * TOP_K = trade[k].weight.den
                   /\ trade[k].entry_date = entry_date
                   /\ trade[k].cluster = c.macro
            /\ \A k \in 1..(Len(trade) - 1) : trade[k].pred >= trade[k + 1].pred

\* a sheet of fewer than K rows from a table with an incomplete row at the
\* decision date
C9_Witness ==
    /\ Returned
    /\ Len(trade) >= 2
    /\ Len(trade) < TOP_K
    /\ \E r \in Range(df_feat) : r.DATE = decision_date /\ ~r.complete

\* C10: the call raises, and returns no sheet, exactly when the snapshot
\* is empty, the model directory is missing or the registry empty, or
\* every cluster's prediction failed; otherwise it returns a sheet, also
\* when some clusters failed.
C10_FatalExactlyWhenNoBasis ==
    /\ (Returned \/ Failed) =>
           (Failed <=> \/ SnapRows = {}
                       \/ ~model_dir.exists
                       \/ Registry = {}
                       \/ Usable = {})
    /\ Failed => trade = <<>>
    /\ Returned => trade # <<>>

\* a sheet returned although one cluster of the registry failed
C10_Witness ==
    /\ Returned
    /\ trade # <<>>
    /\ skipped # <<>>
    /\ \E b \in Registry : Raises(b.model)

---------------------------------------------------------------------------
(* Determinism of live_trade_decision                                      *)

\* the same files as os.listdir may equally return them, last first
Reverse(files) == [k \in 1..Len(files) |-> files[Len(files) + 1 - k]]

\* the rows of the sheet the call assembles from a listing of the registry
SheetRowsFor(files) ==
    Range(TradeRows(Champion(ScoreClusters(Snapshot(df_feat, decision_date),
                                           LoadModels(files))),
                    entry_date))

\* C13: the sheet returned is a function of the feature table, the set of
\* (cluster id, model) pairs and the dates: the call given the same
\* registry enumerated in the opposite order returns the same champion and
\* the same rows.
C13_SameSheetForAnyListing ==
    Returned => Range(trade) = SheetRowsFor(Reverse(model_dir.files))

---------------------------------------------------------------------------
(* The order of the returned sheet                                         *)

\* C19: in the returned sheet rows of equal score are in ascending symbol
\* order: the final sort by score alone leaves the champion's rows in the
\* (score descending, symbol ascending) order of the top-K ranking.
C19_TiesInSymbolOrder ==
    Returned =>
        \A k \in 1..(Len(trade) - 1) :
            trade[k].pred = trade[k + 1].pred =>
                SymbolRank(trade[k].SYMBOL) < SymbolRank(trade[k + 1].SYMBOL)

---------------------------------------------------------------------------
(* The worked scenario of the stability window                             *)

\* the closes of the series of a symbol, oldest first
Closes(g) == [k \in 1..Len(g) |-> g[k].CLOSE_PRICE]

\* the flags are set and the series of X has exactly these closes
ScenarioFlagged(closes) ==
    /\ pc \in {"flagged", "cleaned"}
    /\ MasterSymbols = {"X"}
    /\ Closes(Series("X")) = closes

\* C12 as stated: with closes 100,100,145,146,147,148,149 the bar at index
\* 2 (the third bar) is an abnormal jump with ret1 = 45%, is post-stable
\* and is a corporate event.
C12_ScenarioEventAtIndex2 ==
    ScenarioFlagged(<<100, 100, 145, 146, 147, 148, 149>>) =>
        /\ IsAbnormalJump(Series("X"), 3)
        /\ Series("X")[3].suspected_corp_event

\* C12 amended: with closes 100,100,145,146,147,148,149 the bar at index 2
\* is an abnormal jump with ret1 = 45%, but only four later bars exist, so
\* it is neither post-stable nor a corporate event and the series is
\* returned whole under its own symbol; with an eighth close 150 the five
\* later bars all close within 10% of 146 and the bar at index 2 is a
\* corporate event.
C12_ScenarioNeedsFiveLaterBars ==
    /\ ScenarioFlagged(<<100, 100, 145, 146, 147, 148, 149>>) =>
           /\ IsAbnormalJump(Series("X"), 3)
           /\ (Series("X")[3].CLOSE_PRICE - Series("X")[2].CLOSE_PRICE) * 100
                  = 45 * Series("X")[2].CLOSE_PRICE
           /\ \A k \in 1..7 : ~Series("X")[k].suspected_corp_event
           /\ Cleaned =>
                  cleaned = AsOutput(Series("X"), <<1, 2, 3, 4, 5, 6, 7>>, "X")
    /\ ScenarioFlagged(<<100, 100, 145, 146, 147, 148, 149, 150>>) =>
           /\ IsAbnormalJump(Series("X"), 3)
           /\ Series("X")[3].suspected_corp_event

\* the seven-bar scenario has been cleaned
C12_Witness ==
    /\ Cleaned
    /\ ScenarioFlagged(<<100, 100, 145, 146, 147, 148, 149>>)
    /\ Len(cleaned) = 7

---------------------------------------------------------------------------
(* The stability window at the end of a series                             *)

FlagsSet == pc \in {"flagged", "cleaned"}

\* C14: an abnormal bar with fewer than five later bars in its symbol is
\* never flagged as a corporate event; the run goes on, and a symbol with
\* fewer than six bars comes out unsplit, under its own label, with only
\* its bad ticks removed.
C14_ShortHistoryNeverEvent ==
    FlagsSet =>
        \A sym \in MasterSymbols :
            LET g == Series(sym)
            IN  /\ \A t \in 1..Len(g) :
                       (IsAbnormalJump(g, t) /\ t + 5 > Len(g))
                           => ~g[t].suspected_corp_event
                /\ (Cleaned /\ Len(g) < 6) =>
                       OutputOf(sym) = AsOutput(g, Kept(g), sym)

\* a cleaned symbol of fewer than six bars with an abnormal bar that stays
\* in the output
C14_Witness ==
    /\ Cleaned
    /\ \E sym \in MasterSymbols \ EXCLUDE_SPLIT :
           LET g == Series(sym)
           IN  /\ Len(g) < 6
               /\ \E t \in 1..Len(g) :
                      /\ IsAbnormalJump(g, t)
                      /\ ~IsBadTick(g, t)
                      /\ g[t].ROW \in RowsLabelled(sym, sym)

---------------------------------------------------------------------------
(* Flags are computed before the bad ticks are removed                     *)

\* the master lines of the bars the segmentation of sym reads as events
SegmentationEvents(sym) ==
    LET sub == DropBadTicks(Group(df, sym))
    IN  {sub[k].ROW : k \in Events(sub)}

\* the master lines of the bars the segmentation of sym works on
SegmentationBars(sym) ==
    LET sub == DropBadTicks(Group(df, sym))
    IN  {sub[k].ROW : k \in 1..Len(sub)}

\* C15: the bars the segmentation treats as corporate events are exactly
\* the bars that are corporate events on the original date-sorted series
\* and are not removed as bad ticks, the flags of the original series being
\* the ones kept; so a bar that is no event on the original series is no
\* event after the removal of a bad tick next to it.
C15_FlagsFromOriginalSeries ==
    FlagsSet =>
        \A sym \in MasterSymbols :
            LET g == Series(sym)
            IN  /\ SegmentationBars(sym) =
                       {g[t].ROW : t \in {u \in 1..Len(g) : ~IsBadTick(g, u)}}
                /\ SegmentationEvents(sym) =
                       {g[t].ROW : t \in {u \in 1..Len(g) :
                            IsCorporateEvent(g, u) /\ ~IsBadTick(g, u)}}

\* a bad tick is removed and the second bar after it, which is no abnormal
\* jump on the original series, would be one against the bar before the
\* bad tick and has five stable bars after it; it stays in the output
\* under the symbol's own label
C15_Witness ==
    /\ Cleaned
    /\ \E sym \in MasterSymbols \ EXCLUDE_SPLIT :
           LET g == Series(sym)
           IN  \E t \in 2..Len(g) :
                   /\ IsBadTick(g, t)
                   /\ t + 2 <= Len(g)
                   /\ ~IsAbnormalJump(g, t + 2)
                   /\ IsPostStable(g, t + 2)
                   /\ Abs(g[t + 2].CLOSE_PRICE - g[t - 1].CLOSE_PRICE) * 100
                          > 60 * g[t - 1].CLOSE_PRICE
                   /\ g[t + 2].ROW \in RowsLabelled(sym, sym)

---------------------------------------------------------------------------
(* Symbols are processed independently                                     *)

\* the lines of the master file that belong to sym, the others removed
OwnBars(sym) == SelectSeq(master, LAMBDA r : r.SYMBOL = sym)

\* C16: the output rows that come from a symbol (labels, bars kept, order)
\* are the rows the cleaner returns for a master file holding the bars of
\* that symbol alone: no return, stability window or bad-tick test reads
\* a bar of another symbol.
C16_SymbolsIndependent ==
    Cleaned =>
        \A sym \in MasterSymbols :
            OutputOf(sym) = clean_corporate_events(OwnBars(sym))

\* a cleaned file of two symbols where the first bar of the second symbol
\* is more than 80% above the last bar of the first and is followed by a
\* quiet bar, and is in the output
C16_Witness ==
    /\ Cleaned
    /\ MasterSymbols = {"A", "B"}
    /\ LET a == Series("A")
           b == Series("B")
       IN  /\ Len(b) >= 2
           /\ Abs(b[1].CLOSE_PRICE - a[Len(a)].CLOSE_PRICE) * 100
                  > 80 * a[Len(a)].CLOSE_PRICE
           /\ Ret1Below(b, 2, 10)
           /\ b[1].ROW \in RowsLabelled("B", "B")
           /\ RowsLabelled("A", "A_POST") # {}

---------------------------------------------------------------------------
---------------------------------------------------------------------------
(* integrate_regimes (src/regime_engine.py)                                *)
(* The regime table is a sequence of rows [start_date, end_date,           *)
(* regime_id] in file order, the macro map a sequence of rows [regime_id,  *)
(* macro_group] with each regime_id once.  Dates are day numbers.          *)

\* np.nan in the regime and macro_group columns; the ids are positive
NAN == -1

\* last day of the frames handed to integrate_regimes
MaxDay == 4

\* line 21: the rows of the table whose range holds d, in file order
Matching(reg, d) ==
    SelectSeq(reg, LAMBDA r : r.start_date <= d /\ r.end_date >= d)

\* lines 17-22 without the test of line 19
map_reg_NoCutoff(reg, cutoff, d) ==
    LET r == Matching(reg, d)
    IN  IF Len(r) > 0 THEN r[1].regime_id ELSE NAN

\* lines 17-22
map_reg(reg, cutoff, d) ==
    IF d > cutoff THEN NAN
    ELSE LET r == Matching(reg, d)
         IN  IF Len(r) > 0 THEN r[1].regime_id ELSE NAN

\* line 25: Series.map through the macro map indexed by regime_id
MapMacro(mac, regime) ==
    LET hit == SelectSeq(mac, LAMBDA m : m.regime_id = regime)
    IN  IF regime = NAN \/ hit = <<>> THEN NAN ELSE hit[1].macro_group

\* lines 4-26
integrate_regimes(fr, reg, mac, cutoff) ==
    [k \in 1..Len(fr) |->
        LET regime == map_reg(reg, cutoff, fr[k].DATE)
        IN  [SYMBOL |-> fr[k].SYMBOL, DATE |-> fr[k].DATE,
             CLOSE_PRICE |-> fr[k].CLOSE_PRICE, ROW |-> fr[k].ROW,
             regime |-> regime, macro_group |-> MapMacro(mac, regime)]]

---------------------------------------------------------------------------
(* The inputs of integrate_regimes                                         *)

RegimeIds == {1, 2}

\* the cleaned frame of one symbol with a bar on every day
DailyFrame ==
    [k \in 1..MaxDay |->
        [SYMBOL |-> "A", DATE |-> k, CLOSE_PRICE |-> 100, ROW |-> k]]

RegimeRows ==
    [start_date : 1..MaxDay, end_date : 1..MaxDay, regime_id : RegimeIds]

\* no range, one range, or two ranges that may overlap
RegimeTables ==
    {<<>>} \cup {<<r>> : r \in RegimeRows}
           \cup {<<r, s>> : r \in RegimeRows, s \in RegimeRows}

\* the macro map knows both regimes, or the first only
MacroMaps ==
    {<<[regime_id |-> 1, macro_group |-> 0],
       [regime_id |-> 2, macro_group |-> 1]>>,
     <<[regime_id |-> 1, macro_group |-> 0]>>}

---------------------------------------------------------------------------
(* One call of integrate_regimes                                           *)

InitRegime ==
    /\ master = <<>>
    /\ df = <<>>
    /\ cleaned = DailyFrame
    /\ pc = "regimes"
    /\ TradeIdle
    /\ regime_table \in RegimeTables
    /\ macro_map \in MacroMaps
    /\ cutoff_date \in 0..MaxDay
    /\ df_regime = <<>>
    /\ PipeIdle
    /\ PerfIdle

\* regime_engine.py lines 4-26
IntegrateRegimes ==
    /\ pc = "regimes"
    /\ df_regime' = integrate_regimes(cleaned, regime_table, macro_map,
                                      cutoff_date)
    /\ pc' = "tagged"
    /\ UNCHANGED <<master, df, cleaned>>
    /\ UNCHANGED tradeVars
    /\ UNCHANGED <<regime_table, macro_map, cutoff_date>>
    /\ UNCHANGED <<pipeVars, perfVars>>

NextRegime == IntegrateRegimes

SpecRegime == InitRegime /\ [][NextRegime]_vars

---------------------------------------------------------------------------
(* Properties of integrate_regimes                                         *)

Tagged == pc = "tagged"

\* some range of the regime table holds the date
InSomeRange(d) ==
    \E k \in 1..Len(regime_table) :
        regime_table[k].start_date <= d /\ d <= regime_table[k].end_date

\* C11: a bar has a known regime only if its date lies in some range of
\* the regime table and is not after the cutoff; every bar dated after the
\* cutoff has an unknown regime and a missing macro group, whatever the
\* regime table holds.
C11_RegimeNeverLooksAhead ==
    Tagged =>
        \A k \in 1..Len(df_regime) :
            /\ df_regime[k].regime # NAN =>
                   /\ InSomeRange(df_regime[k].DATE)
                   /\ df_regime[k].DATE <= cutoff_date
            /\ df_regime[k].DATE > cutoff_date =>
                   /\ df_regime[k].regime = NAN
                   /\ df_regime[k].macro_group = NAN

\* a bar after the cutoff lies in a range of the table, a bar up to the
\* cutoff has a known regime
C11_Witness ==
    /\ Tagged
    /\ \E k \in 1..Len(df_regime) :
           /\ df_regime[k].DATE > cutoff_date
           /\ InSomeRange(df_regime[k].DATE)
    /\ \E k \in 1..Len(df_regime) :
           /\ df_regime[k].DATE <= cutoff_date
           /\ df_regime[k].regime # NAN
           /\ df_regime[k].macro_group # NAN

---------------------------------------------------------------------------
---------------------------------------------------------------------------
(* The run of the pipeline (src/app.py lines 127-164):                     *)
(* clean_corporate_events -> integrate_regimes -> add_features -> the      *)
(* snapshot of live_trade_decision.  A feature row keeps, in place of the  *)
(* nine feature values, the closes they are computed from and whether all  *)
(* of them are defined; the volume columns are taken to be present and to  *)
(* vary, so the z-scores are defined as soon as their window is full.      *)

\* the longest look-back of the features, g[...].rolling(20)
ROLLING_Z == 20

\* the longest look-back on the close, pct_change(10)
RET_LAG == 10

\* feature_engineer.py lines 14-52: the rows of one label, sorted by date
build_features(g) ==
    LET sub == SortSeq(g, LAMBDA a, b : a.DATE < b.DATE)
    IN  [t \in 1..Len(sub) |->
            [SYMBOL |-> sub[t].SYMBOL, DATE |-> sub[t].DATE,
             CLOSE_PRICE |-> sub[t].CLOSE_PRICE,
             regime |-> sub[t].regime, macro_group |-> sub[t].macro_group,
             past |-> [j \in 1..(t - Max(1, t - RET_LAG)) |->
                          sub[Max(1, t - RET_LAG) + j - 1].CLOSE_PRICE],
             complete |-> t >= ROLLING_Z]]

RECURSIVE FeatureGroups(_, _)
FeatureGroups(fr, keys) ==
    IF keys = <<>> THEN <<>>
    ELSE build_features(Group(fr, Head(keys))) \o FeatureGroups(fr, Tail(keys))

\* feature_engineer.py lines 12-59
add_features(fr) == FeatureGroups(fr, GroupKeys(fr))

\* app.py lines 130-164, up to the snapshot of trade_engine.py lines 30-34
PipelineSnapshot(csv, reg, mac, date) ==
    Snapshot(add_features(integrate_regimes(clean_corporate_events(csv),
                                            reg, mac, date)),
             date)

\* the part of a master file dated on or before a day
KnownAt(csv, date) == SelectSeq(csv, LAMBDA r : r.DATE <= date)

---------------------------------------------------------------------------
(* The inputs of the pipeline                                              *)

\* master files of one symbol long enough for a complete feature row
PipelineFiles ==
    {MasterFile("A", s, "plain") :
        s \in {x \in OneChangeShapes : x.n >= ROLLING_Z}}

\* one regime over all the days of the master file
PipelineRegimes ==
    <<[start_date |-> 1, end_date |-> MaxLen, regime_id |-> 1]>>

PipelineMacroMap == <<[regime_id |-> 1, macro_group |-> 0]>>

---------------------------------------------------------------------------
(* The pipeline run on a master file, and run again on the bars of that    *)
(* file dated on or before the decision date                               *)

InitPipeline ==
    /\ master \in PipelineFiles
    /\ df = <<>>
    /\ cleaned = <<>>
    /\ pc = "pipeline"
    /\ df_feat = <<>>
    /\ decision_date \in ROLLING_Z..MaxLen
    /\ decision_date <= Len(master)
    /\ entry_date = 0
    /\ model_dir = [exists |-> FALSE, files |-> <<>>]
    /\ trade = <<>>
    /\ outcome = "idle"
    /\ skipped = <<>>
    /\ regime_table = PipelineRegimes
    /\ macro_map = PipelineMacroMap
    /\ cutoff_date = decision_date
    /\ df_regime = <<>>
    /\ PipeIdle
    /\ PerfIdle

\* app.py lines 130-164 on the master file as it is
RunPipeline ==
    /\ pc = "pipeline"
    /\ snap_full' = PipelineSnapshot(master, regime_table, macro_map,
                                     decision_date)
    /\ pc' = "ran"
    /\ UNCHANGED <<master, df, cleaned, snap_known>>
    /\ UNCHANGED <<tradeVars, regimeVars, perfVars>>

\* app.py lines 130-164 on the master file as it was at the decision date
RunPipelineKnown ==
    /\ pc = "ran"
    /\ snap_known' = PipelineSnapshot(KnownAt(master, decision_date),
                                      regime_table, macro_map, decision_date)
    /\ pc' = "both"
    /\ UNCHANGED <<master, df, cleaned, snap_full>>
    /\ UNCHANGED <<tradeVars, regimeVars, perfVars>>

NextPipeline == RunPipeline \/ RunPipelineKnown

SpecPipeline == InitPipeline /\ [][NextPipeline]_vars

---------------------------------------------------------------------------
(* Properties of the pipeline                                              *)

\* C17: the snapshot handed to the selector at decision date D depends
\* only on the bars dated on or before D: the master file and the part of
\* it dated on or before D, which agree on every such bar, give the same
\* set of snapshot rows (labels, closes and the closes behind the
\* features).
C17_SnapshotIgnoresLaterBars ==
    pc = "both" => Range(snap_full) = Range(snap_known)

---------------------------------------------------------------------------
---------------------------------------------------------------------------
(* The entry date of the strategy run (src/app.py lines 89-93, 157-172)    *)
(* and of run_weekly_performance_check (src/performance_engine.py lines    *)
(* 33-76).  Days are numbered from a Monday: day 1 is a Monday, days 6 and *)
(* 7 are a Saturday and a Sunday.  A trade file is named by its entry date.*)

HOLDING_DAYS == 5

\* last day of the calendar
MaxCal == 12

IsBusinessDay(d) == (d - 1) % 7 < 5

\* d + pd.tseries.offsets.BDay(1): the first Monday-to-Friday day after d
NextBDay(d) == CHOOSE e \in (d + 1)..(d + 3) :
                   /\ IsBusinessDay(e)
                   /\ \A f \in (d + 1)..(e - 1) : ~IsBusinessDay(f)

\* np.sort(df["DATE1"].unique())
SortedDates(dates) ==
    SortSeq(LET pick[S \in SUBSET dates] ==
                    IF S = {} THEN <<>>
                    ELSE LET d == CHOOSE x \in S : TRUE
                         IN  <<d>> \o pick[S \ {d}]
            IN  pick[dates],
            LAMBDA a, b : a < b)

\* np.where(dates == decision_date)[0]: the positions of the decision date
DecisionIdx(dates, date) == {k \in 1..Len(dates) : dates[k] = date}

---------------------------------------------------------------------------
(* The inputs: the exchange trades on business days, not on all of them    *)

TradingCalendars ==
    {c \in SUBSET {d \in 1..MaxCal : IsBusinessDay(d)} : c # {}}

---------------------------------------------------------------------------
(* A strategy run for a decision date, then the performance check for it   *)

InitPerf ==
    /\ master = <<>>
    /\ df = <<>>
    /\ cleaned = <<>>
    /\ pc = "strategy"
    /\ df_feat = <<>>
    /\ decision_date \in 1..MaxCal
    /\ entry_date = NextBDay(decision_date)
    /\ model_dir = [exists |-> FALSE, files |-> <<>>]
    /\ trade = <<>>
    /\ outcome = "idle"
    /\ skipped = <<>>
    /\ RegimeIdle
    /\ PipeIdle
    /\ master_dates \in TradingCalendars
    /\ trade_files = {}
    /\ check = "idle"

\* app.py lines 157-170: live_trade_decision returned a sheet, which needs
\* bars at the decision date; the sheet is saved under the entry date
StrategySaves ==
    /\ pc = "strategy"
    /\ decision_date \in master_dates
    /\ trade_files' = trade_files \cup {entry_date}
    /\ pc' = "saved"
    /\ UNCHANGED <<master, df, cleaned>>
    /\ UNCHANGED <<tradeVars, regimeVars, pipeVars>>
    /\ UNCHANGED <<master_dates, check>>

\* app.py lines 171-172: live_trade_decision raised, nothing is saved
StrategyFails ==
    /\ pc = "strategy"
    /\ pc' = "failed"
    /\ UNCHANGED <<master, df, cleaned>>
    /\ UNCHANGED <<tradeVars, regimeVars, pipeVars>>
    /\ UNCHANGED perfVars

PerfRaise(error) ==
    /\ check' = error
    /\ UNCHANGED <<cleanVars, tradeVars, regimeVars, pipeVars>>
    /\ UNCHANGED <<master_dates, trade_files>>

\* performance_engine.py lines 58-59
CheckNoDecisionDate ==
    /\ pc \in {"saved", "failed"}
    /\ check = "idle"
    /\ DecisionIdx(SortedDates(master_dates), decision_date) = {}
    /\ PerfRaise("RuntimeError: decision date not found in master data")

\* performance_engine.py lines 62-66
CheckNotEnoughData ==
    /\ pc \in {"saved", "failed"}
    /\ check = "idle"
    /\ LET dates == SortedDates(master_dates)
           idx == DecisionIdx(dates, decision_date)
       IN  /\ idx # {}
           /\ (CHOOSE k \in idx : TRUE) + HOLDING_DAYS > Len(dates)
    /\ PerfRaise("RuntimeError: not enough future data points")

\* performance_engine.py lines 68-76
CheckNoTradeFile ==
    /\ pc \in {"saved", "failed"}
    /\ check = "idle"
    /\ LET dates == SortedDates(master_dates)
           idx == DecisionIdx(dates, decision_date)
       IN  /\ idx # {}
           /\ (CHOOSE k \in idx : TRUE) + HOLDING_DAYS <= Len(dates)
           /\ dates[(CHOOSE k \in idx : TRUE) + 1] \notin trade_files
    /\ PerfRaise("RuntimeError: trade file not found")

\* performance_engine.py lines 68-78: the trade file is read
CheckReadsTrades ==
    /\ pc \in {"saved", "failed"}
    /\ check = "idle"
    /\ LET dates == SortedDates(master_dates)
           idx == DecisionIdx(dates, decision_date)
       IN  /\ idx # {}
           /\ (CHOOSE k \in idx : TRUE) + HOLDING_DAYS <= Len(dates)
           /\ dates[(CHOOSE k \in idx : TRUE) + 1] \in trade_files
    /\ PerfRaise("trades read")

NextPerf ==
    \/ StrategySaves
    \/ StrategyFails
    \/ CheckNoDecisionDate
    \/ CheckNotEnoughData
    \/ CheckNoTradeFile
    \/ CheckReadsTrades

SpecPerf == InitPerf /\ [][NextPerf]_vars

---------------------------------------------------------------------------
(* Properties of the entry date                                            *)

\* the dates of the master file after the decision date
LaterDates == {d \in master_dates : d > decision_date}

\* C18: for a decision date of the master file with at least HOLDING_DAYS
\* later dates, the entry date the strategy run saves its sheet under is
\* the next date of the master file, the one the performance check looks
\* the sheet up under; so the check made after the run reads the sheet.
C18_EntryDateIsNextMasterDate ==
    (/\ pc = "saved"
     /\ decision_date \in master_dates
     /\ Cardinality(LaterDates) >= HOLDING_DAYS)
        => /\ \A d \in LaterDates : entry_date <= d
           /\ entry_date \in LaterDates
           /\ check # "idle" => check = "trades read"

===========================================================================
